---- MODULE Spec2Model ----
(***************************************************************************)
(* Model of braidvisualiser.Braid (src/src/braidvisualiser/braid.py):      *)
(* the constructor's validation loop, the strand tracker _track_strands    *)
(* and the path bookkeeping of draw.  Python lists are sequences; a        *)
(* Python index i into a list of length len is the TLA+ index Py(i, len).  *)
(* The list built at line 62 is one object that the attributes bot_labels  *)
(* and top_labels both reference; the model keeps its content in           *)
(* label_positions and the two attributes as references to it.             *)
(***************************************************************************)
EXTENDS Integers, Sequences, FiniteSets, TLC

\* Bounds of the model
MaxN == 3
MaxLen == 3

Strands == 0..MaxN
Generators == (0 - MaxN)..MaxN
Seqs(S, m) == UNION {[1..l -> S] : l \in 0..m}
Words == Seqs(Generators, MaxLen)
Styles == {"comp", "ext"}

VARIABLES
  pc,                   \* position of the program
  n, ops,               \* arguments of Braid(n, *ops)
  it,                   \* position of `for i in ops` (1-based)
  attrs,                \* names of the attributes set on self
  braid_group,          \* self.braid_group
  braid_word,           \* self.braid_word
  label_positions,      \* content of the list object created at line 62
  bot_labels,           \* self.bot_labels: reference
  top_labels,           \* self.top_labels: reference
  local_under,          \* the local list undercrossing_labels of the tracker
  undercrossing_labels, \* self.undercrossing_labels
  tstep,                \* iterations of `for op in reversed(...)` done
  index,                \* the tracker's local `index` of the last iteration
  recorded,             \* history: word position -> label appended for it
  tracker_entered,      \* history: _track_strands has been called
  style, x, layer, strands, count   \* locals of draw

vars == <<pc, n, ops, it, attrs, braid_group, braid_word, label_positions,
          bot_labels, top_labels, local_under, undercrossing_labels, tstep,
          index, recorded, tracker_entered, style, x, layer, strands, count>>

trackVars == <<label_positions, bot_labels, top_labels, local_under,
               undercrossing_labels, tstep, index, recorded, tracker_entered>>
drawVars == <<style, x, layer, strands, count>>
argVars == <<n, ops>>

----------------------------------------------------------------------------
\* Python primitives

Abs(i) == IF i < 0 THEN 0 - i ELSE i

\* np.sign
Sign(i) == IF i < 0 THEN 0 - 1 ELSE IF i > 0 THEN 1 ELSE 0

\* list indexing: negative indices count from the end
InRange(i, len) == (0 - len) <= i /\ i < len
Py(i, len) == IF i < 0 THEN i + len + 1 ELSE i + 1

InSeq(e, s) == \E j \in 1..Len(s) : s[j] = e

\* list.reverse()
ReverseKeep(s) == s
Reverse(s) == [j \in 1..Len(s) |-> s[Len(s) + 1 - j]]

----------------------------------------------------------------------------
\* Braid.__init__

\* line 35: the test that rejects an operation
InvalidOffByOne(i, m) == Abs(i) >= m - 1
Invalid(i, m) == Abs(i) >= m

\* the reference held by bot_labels / top_labels
None == "None"
ListRef == "label_positions"

Init ==
  /\ n \in Strands
  /\ ops \in Words
  /\ pc = "init_loop"
  /\ it = 1
  /\ attrs = {"braid_group", "braid_word"}
  /\ braid_group = n
  /\ braid_word = <<>>
  /\ label_positions = <<>>
  /\ bot_labels = None
  /\ top_labels = None
  /\ local_under = <<>>
  /\ undercrossing_labels = <<>>
  /\ tstep = 0
  /\ index = 0
  /\ recorded = <<>>
  /\ tracker_entered = FALSE
  /\ style = "comp"
  /\ x = 0
  /\ layer = <<>>
  /\ strands = <<>>
  /\ count = 0

\* lines 33-38, an iteration that accepts ops[it]
InitAppend ==
  /\ pc = "init_loop"
  /\ it <= Len(ops)
  /\ ~Invalid(ops[it], n)
  /\ braid_word' = Append(braid_word, ops[it])
  /\ it' = it + 1
  /\ UNCHANGED <<pc, attrs, braid_group>>
  /\ UNCHANGED <<argVars, trackVars, drawVars>>

\* lines 33-36, the iteration that raises
InitRaise ==
  /\ pc = "init_loop"
  /\ it <= Len(ops)
  /\ Invalid(ops[it], n)
  /\ pc' = "ValueError"
  /\ UNCHANGED <<it, attrs, braid_group, braid_word>>
  /\ UNCHANGED <<argVars, trackVars, drawVars>>

----------------------------------------------------------------------------
\* Braid._track_strands

\* line 62
InitialLabelsZeroBased(m) == [j \in 1..m |-> j - 1]
InitialLabels(m) == [j \in 1..m |-> j]

\* lines 70-73: the Python index whose label is appended
UnderIndexSwapped(op, idx) == IF Sign(op) = 0 - 1 THEN idx ELSE idx + 1
UnderIndex(op, idx) == IF Sign(op) = 0 - 1 THEN idx + 1 ELSE idx

\* lines 75-81: tuple assignment, right-hand side read first
SwapOverwrite(s, idx) ==
  LET len == Len(s)
  IN  [s EXCEPT ![Py(idx, len)] = s[Py(idx + 1, len)]]
Swap(s, idx) ==
  LET len == Len(s)
      a == s[Py(idx + 1, len)]
      b == s[Py(idx, len)]
      s1 == [s EXCEPT ![Py(idx, len)] = a]
  IN  [s1 EXCEPT ![Py(idx + 1, len)] = b]

\* lines 40, 61-65: the loop of __init__ is over, the tracker is entered
TrackBegin ==
  /\ pc = "init_loop"
  /\ it > Len(ops)
  /\ tracker_entered' = TRUE
  /\ label_positions' = InitialLabels(braid_group)
  /\ bot_labels' = ListRef
  /\ attrs' = attrs \cup {"bot_labels"}
  /\ local_under' = <<>>
  /\ tstep' = 0
  /\ recorded' = [j \in 1..Len(braid_word) |-> 0]
  /\ pc' = "track_loop"
  /\ UNCHANGED <<it, braid_group, braid_word, top_labels,
                 undercrossing_labels, index>>
  /\ UNCHANGED <<argVars, drawVars>>

\* lines 67-81, one iteration
TrackStep ==
  /\ pc = "track_loop"
  /\ tstep < Len(braid_word)
  /\ LET k == Len(braid_word) - tstep
         op == braid_word[k]
         idx == Abs(op) - 1
         len == Len(label_positions)
         u == UnderIndex(op, idx)
     IN  /\ index' = idx
         /\ tstep' = tstep + 1
         /\ IF InRange(idx, len) /\ InRange(idx + 1, len)
            THEN /\ local_under' =
                      Append(local_under, label_positions[Py(u, len)])
                 /\ recorded' =
                      [recorded EXCEPT ![k] = label_positions[Py(u, len)]]
                 /\ label_positions' = Swap(label_positions, idx)
                 /\ pc' = pc
            ELSE /\ pc' = "IndexError"
                 /\ UNCHANGED <<local_under, recorded, label_positions>>
  /\ UNCHANGED <<it, attrs, braid_group, braid_word, bot_labels, top_labels,
                 undercrossing_labels, tracker_entered>>
  /\ UNCHANGED <<argVars, drawVars>>

\* lines 83-87 and the assignment of line 40
TrackReturn ==
  /\ pc = "track_loop"
  /\ tstep = Len(braid_word)
  /\ top_labels' = ListRef
  /\ local_under' = Reverse(local_under)
  /\ undercrossing_labels' = Reverse(local_under)
  /\ attrs' = attrs \cup {"top_labels", "undercrossing_labels"}
  /\ pc' = "constructed"
  /\ UNCHANGED <<it, braid_group, braid_word, label_positions, bot_labels,
                 tstep, index, recorded, tracker_entered>>
  /\ UNCHANGED <<argVars, drawVars>>

\* reading an attribute that holds a reference
Deref(ref) == IF ref = ListRef THEN label_positions ELSE <<>>
BotLabels == Deref(bot_labels)
TopLabels == Deref(top_labels)

----------------------------------------------------------------------------
\* Braid.draw: the bookkeeping of the paths.  A path is the array that starts
\* at point (start, 0); each crossing concatenates one piece to the two paths
\* it touches, drawn whole ("full") or with the line break ("gap").

Constructed == pc \in {"constructed", "drawn", "ZeroDivisionError"}

\* __init__ has returned: line 40 has assigned its attribute
Built == "undercrossing_labels" \in attrs

\* lines 128-133
StartStrands(m) == [s \in 1..m |-> [start |-> s, pieces |-> <<>>, end |-> 0]]

\* lines 152, 162: the Python index of the path drawn with the gap (for
\* np.sign(op) == 0 neither branch runs and no path gets a piece)
GapStrandSwapped(op, i) ==
  IF Sign(op) = 1 THEN i - 1 ELSE IF Sign(op) = 0 - 1 THEN i ELSE 0 - 1
GapStrand(op, i) ==
  IF Sign(op) = 1 THEN i ELSE IF Sign(op) = 0 - 1 THEN i - 1 ELSE 0 - 1

\* lines 152-171
Crossed(s, op, i, c, off) ==
  LET len == Len(s)
      g == GapStrand(op, i)
      piece(j) == [count |-> c, i |-> i, x |-> off,
                   kind |-> IF j = g THEN "gap" ELSE "full"]
      add(j, t) == [t EXCEPT ![Py(j, len)].pieces = Append(@, piece(j))]
  IN  IF Sign(op) = 0 THEN s ELSE add(i, add(i - 1, s))

\* lines 174-177
SwapStrands(s, i) ==
  LET len == Len(s)
      a == s[Py(i, len)]
      b == s[Py(i - 1, len)]
      s1 == [s EXCEPT ![Py(i - 1, len)] = a]
  IN  [s1 EXCEPT ![Py(i, len)] = b]

\* lines 139-144
LayerHit(l, i) == InSeq(i, l) \/ InSeq(i + 1, l)
NextLayer(st, l, i) ==
  IF st = "comp"
  THEN Append(Append(IF LayerHit(l, i) THEN <<>> ELSE l, i), i + 1)
  ELSE l

\* lines 115-133
DrawBegin ==
  /\ Constructed
  /\ \E st \in Styles : style' = st
  /\ x' = 0
  /\ layer' = <<>>
  /\ strands' = StartStrands(braid_group)
  /\ count' = 0
  /\ pc' = "draw_loop"
  /\ UNCHANGED <<it, attrs, braid_group, braid_word>>
  /\ UNCHANGED <<argVars, trackVars>>

\* lines 136-180, one iteration
DrawStep ==
  /\ pc = "draw_loop"
  /\ count < Len(braid_word)
  /\ LET op == braid_word[count + 1]
         i == Abs(op)
         x1 == IF style = "comp" /\ LayerHit(layer, i) THEN x + 2 ELSE x
         len == Len(strands)
     IN  /\ layer' = NextLayer(style, layer, i)
         /\ IF InRange(i - 1, len) /\ InRange(i, len)
            THEN /\ strands' = SwapStrands(Crossed(strands, op, i, count, x1), i)
                 /\ x' = IF style = "ext" \/ count + 1 = Len(braid_word)
                         THEN x1 + 2 ELSE x1
                 /\ pc' = pc
            ELSE /\ strands' = strands
                 /\ x' = x1
                 /\ pc' = "IndexError"
         /\ count' = count + 1
  /\ UNCHANGED style
  /\ UNCHANGED <<it, attrs, braid_group, braid_word>>
  /\ UNCHANGED <<argVars, trackVars>>

\* lines 182-203: the end points, then ax.set_aspect(2 * n / x)
DrawFinish ==
  /\ pc = "draw_loop"
  /\ count = Len(braid_word)
  /\ strands' = [s \in 1..Len(strands) |-> [strands[s] EXCEPT !.end = s]]
  /\ pc' = IF x = 0 THEN "ZeroDivisionError" ELSE "drawn"
  /\ UNCHANGED <<style, x, layer, count>>
  /\ UNCHANGED <<it, attrs, braid_group, braid_word>>
  /\ UNCHANGED <<argVars, trackVars>>

----------------------------------------------------------------------------
Next ==
  \/ InitAppend
  \/ InitRaise
  \/ TrackBegin
  \/ TrackStep
  \/ TrackReturn
  \/ DrawBegin
  \/ DrawStep
  \/ DrawFinish

Spec == Init /\ [][Next]_vars

TypeOK ==
  /\ pc \in {"init_loop", "ValueError", "track_loop", "constructed",
             "draw_loop", "drawn", "ZeroDivisionError", "IndexError"}
  /\ n \in Strands
  /\ braid_group = n
  /\ Len(braid_word) <= Len(ops)

----------------------------------------------------------------------------
\* Properties

Canonical(m) == [j \in 1..m |-> j]
Valid(m, w) == \A j \in 1..Len(w) : 1 <= Abs(w[j]) /\ Abs(w[j]) <= m - 1
IsPermutation(s, m) == Len(s) = m /\ {s[j] : j \in 1..Len(s)} = 1..m

\* C1: after construction bot_labels equals [1, 2, ..., n], whatever the word
C1_BottomCanonical == Built => BotLabels = Canonical(n)

\* C2: construction raises if and only if some generator has |g| = 0 or
\* |g| >= n
C2_RejectsIffInvalid ==
  (pc = "ValueError" \/ Built) =>
    ((pc = "ValueError") <=>
       (\E j \in 1..Len(ops) : Abs(ops[j]) = 0 \/ Abs(ops[j]) >= n))

\* The reverse pass as the specification words it: generators w[k], ...,
\* w[1] applied to the labels l; top is the final array and rec the labels
\* in the order they were recorded.
RECURSIVE RefPass(_, _, _)
RefPass(l, w, k) ==
  IF k = 0 THEN [top |-> l, rec |-> <<>>]
  ELSE LET g == w[k]
           i == Abs(g)
           under == IF g < 0 THEN l[i + 1] ELSE l[i]
           l2 == [j \in 1..Len(l) |->
                    IF j = i THEN l[i + 1] ELSE IF j = i + 1 THEN l[i] ELSE l[j]]
           r == RefPass(l2, w, k - 1)
       IN  [top |-> r.top, rec |-> <<under>> \o r.rec]

RECURSIVE RefReversed(_)
RefReversed(s) ==
  IF s = <<>> THEN <<>> ELSE Append(RefReversed(Tail(s)), Head(s))

RefAgrees ==
  LET r == RefPass(Canonical(n), braid_word, Len(braid_word))
  IN  /\ TopLabels = r.top
      /\ undercrossing_labels = RefReversed(r.rec)

\* C3 as stated: for a valid word top_labels and undercrossing_labels are
\* those of the reference reverse pass, and (3, [1, 2]) gives top_labels
\* [3, 1, 2] and undercrossing_labels [1, 3]
C3_AsStated ==
  (Built /\ Valid(n, braid_word)) =>
    /\ RefAgrees
    /\ (n = 3 /\ braid_word = <<1, 2>>) =>
         (TopLabels = <<3, 1, 2>> /\ undercrossing_labels = <<1, 3>>)

\* C3 amended: for a valid word top_labels and undercrossing_labels are
\* those of the reference reverse pass, and (3, [1, 2]) gives top_labels
\* [3, 1, 2] and undercrossing_labels [1, 2]
C3_TrackerMatchesReference ==
  (Built /\ Valid(n, braid_word)) =>
    /\ RefAgrees
    /\ (n = 3 /\ braid_word = <<1, 2>>) =>
         (TopLabels = <<3, 1, 2>> /\ undercrossing_labels = <<1, 2>>)

C3_Witness ==
  /\ Built
  /\ n = 3
  /\ braid_word = <<1, 2>>
  /\ TopLabels = <<3, 1, 2>>
  /\ undercrossing_labels = <<1, 2>>

\* C4: for a valid word the working label array is a permutation of 1..n
\* after every swap, and so are top_labels and bot_labels
C4_LabelsArePermutations ==
  (tracker_entered /\ Valid(n, braid_word)) =>
    /\ IsPermutation(label_positions, n)
    /\ IsPermutation(BotLabels, n)
    /\ Built => IsPermutation(TopLabels, n)

C4_Witness ==
  /\ pc = "track_loop"
  /\ Valid(n, braid_word)
  /\ n = 3
  /\ tstep = 2
  /\ \A j \in 1..n : label_positions[j] # j

\* C5: undercrossing_labels is as long as the word and its entry k is the
\* label recorded for the k-th generator of the word
C5_UnderLabelsFollowWord ==
  Built =>
    /\ Len(undercrossing_labels) = Len(braid_word)
    /\ \A k \in 1..Len(braid_word) : undercrossing_labels[k] = recorded[k]

C5_Witness ==
  /\ Built
  /\ Len(braid_word) = 3
  /\ undercrossing_labels[1] # undercrossing_labels[3]

TrackingAttrs == {"bot_labels", "top_labels", "undercrossing_labels"}

\* C6 as stated: a rejected construction has not entered the tracker and
\* leaves none of bot_labels, top_labels, undercrossing_labels nor a partly
\* built word on the object (read here on the constructions whose generators
\* before the rejected one are all in 1..n-1)
C6_NoPartialState ==
  (pc = "ValueError" /\ Valid(n, braid_word)) =>
    /\ ~tracker_entered
    /\ attrs \cap TrackingAttrs = {}
    /\ ~("braid_word" \in attrs /\ braid_word # <<>>)

Rejected == {k \in 1..Len(ops) : Abs(ops[k]) >= n}
FirstRejected ==
  IF Rejected = {} THEN Len(ops) + 1
  ELSE CHOOSE k \in Rejected : \A j \in Rejected : k <= j

\* C6 amended: a rejected construction has not entered the tracker and has
\* set none of bot_labels, top_labels, undercrossing_labels; the object holds
\* braid_group and, in braid_word, the generators before the rejected one
C6_FailFastKeepsPrefix ==
  pc = "ValueError" =>
    /\ ~tracker_entered
    /\ attrs = {"braid_group", "braid_word"}
    /\ braid_group = n
    /\ Rejected # {}
    /\ braid_word = SubSeq(ops, 1, FirstRejected - 1)

C6_Witness ==
  /\ pc = "ValueError"
  /\ Valid(n, braid_word)
  /\ Len(braid_word) = 2
  /\ Len(ops) = 3
  /\ ~tracker_entered

\* C7: the empty word is accepted for every n, with top_labels = bot_labels
\* = [1..n] and no undercrossing label
C7_EmptyWord ==
  ops = <<>> =>
    /\ pc \notin {"ValueError", "IndexError"}
    /\ Built =>
         /\ TopLabels = Canonical(n)
         /\ BotLabels = Canonical(n)
         /\ undercrossing_labels = <<>>

C7_Witness ==
  /\ Built
  /\ ops = <<>>
  /\ n = 3
  /\ TopLabels = <<1, 2, 3>>

\* C8: at every step of the reverse pass index and index + 1 lie in 0..n-1
C8_IndicesInRange ==
  /\ pc # "IndexError"
  /\ (pc = "track_loop" /\ tstep > 0) => (0 <= index /\ index + 1 <= n - 1)

\* the positions whose path was drawn with the gap at the crossing `c`
GapEnds(c) ==
  {j \in 1..Len(strands) :
     \E q \in 1..Len(strands[j].pieces) :
        strands[j].pieces[q].count = c /\ strands[j].pieces[q].kind = "gap"}

\* C9: for a valid word the path drawn with the gap at crossing k ends at
\* bottom position undercrossing_labels[k], and the path ending at bottom
\* position j starts at the top position p with top_labels[p-1] = j
C9_DrawAgreesWithTracker ==
  (pc = "drawn" /\ Valid(n, braid_word)) =>
    /\ \A k \in 1..Len(braid_word) : GapEnds(k - 1) = {undercrossing_labels[k]}
    /\ \A j \in 1..n :
         /\ strands[j].end = j
         /\ TopLabels[strands[j].start] = j

C9_Witness ==
  /\ pc = "drawn"
  /\ n = 3
  /\ Valid(n, braid_word)
  /\ Len(braid_word) = 3
  /\ braid_word[1] > 0
  /\ braid_word[2] < 0
  /\ strands[1].start = 3

\* C10: when draw computes the aspect ratio 2*n/x the offset x is positive,
\* in both styles and for the empty word too
C10_DrawCompletes ==
  pc \in {"drawn", "ZeroDivisionError"} => x > 0

====
